---- MODULE Spec2Model ----
(***************************************************************************)
(* Blog Creator (src/src/main.rs): the editor state `Post`, the persisted  *)
(* document `BlogPost`, the two conversions between them and the event     *)
(* handler `Post::update`, together with the file system and the           *)
(* collaborators (file dialogs, image fetch) the handler calls.            *)
(*                                                                         *)
(* Text is modelled as a sequence of characters so that split, trim, join  *)
(* and the editor's line buffer are computed, not assumed.                 *)
(***************************************************************************)
EXTENDS Integers, Sequences, FiniteSets, TLC

VARIABLES
    post,      \* the single `Post` value owned by the application
    fs,        \* the file system: path -> file content
    aborted,   \* TRUE once an unwrap() has panicked inside update
    last,      \* the event processed last and what its collaborators answered
    nev,       \* number of events processed so far
    cv         \* value under conversion (specification ConvSpec only)

vars == <<post, fs, aborted, last, nev, cv>>

\* ------------------------------------------------------------------ bounds
MaxEvents == 3
MaxBody == 2

\* ------------------------------------------------------------ basic values
None == "None"

NL == "\n"

\* PathBuf values the dialogs can return; "pRaw" is a path whose bytes are
\* not valid UTF-8 (Path::to_str gives None for it).
Paths == {"p1", "p2", "p3", "pRaw"}

SavePaths == {"p1", "p2"}

PathToStr(path) == IF path = "pRaw" THEN None ELSE path

TabIDs == {"Content", "Meta"}

TabDefault == "Content"

\* ------------------------------------------------------- sequence helpers
RECURSIVE SplitFrom(_, _, _)
\* str::split(sep): the pieces of s between occurrences of sep; acc is the
\* piece being collected.  Always at least one piece.
SplitFrom(s, sep, acc) ==
    IF s = <<>> THEN <<acc>>
    ELSE IF Head(s) = sep THEN <<acc>> \o SplitFrom(Tail(s), sep, <<>>)
    ELSE SplitFrom(Tail(s), sep, Append(acc, Head(s)))

Split(s, sep) == SplitFrom(s, sep, <<>>)

RECURSIVE Join(_, _)
\* [String]::join(sep)
Join(pieces, sep) ==
    IF pieces = <<>> THEN <<>>
    ELSE IF Len(pieces) = 1 THEN pieces[1]
    ELSE pieces[1] \o <<sep>> \o Join(Tail(pieces), sep)

IsSpace(c) == c = " " \/ c = NL

RECURSIVE TrimStart(_)
TrimStart(s) ==
    IF s # <<>> /\ IsSpace(Head(s)) THEN TrimStart(Tail(s)) ELSE s

RECURSIVE TrimEnd(_)
TrimEnd(s) ==
    IF s # <<>> /\ IsSpace(s[Len(s)]) THEN TrimEnd(SubSeq(s, 1, Len(s) - 1)) ELSE s

\* str::trim
Trim(s) == TrimEnd(TrimStart(s))

\* --------------------------------------------------- text editor Content
\* text_editor::Content is a buffer of lines.
ContentDefault == << <<>> >>

\* Content::with_text
ContentWithText(text) == Split(text, NL)

EndsWithNL(text) == text # <<>> /\ text[Len(text)] = NL

\* Content::text: the lines joined with '\n', and a final '\n' pushed when
\* the joined text does not end with one.
ContentText(content) ==
    LET joined == Join(content, NL)
    IN  IF EndsWithNL(joined) THEN joined ELSE Append(joined, NL)

\* Number of characters typed into the buffer.
ContentSize(content) == Len(Join(content, NL))

\* Content::perform for the actions that change the text (the cursor stays
\* at the end of the buffer) and for the ones that only move or select.
ContentPerform(content, action) ==
    LET n == Len(content)
        lastLine == content[n]
    IN  CASE action.kind = "Insert" ->
                [content EXCEPT ![n] = Append(lastLine, action.ch)]
          [] action.kind = "Enter" -> Append(content, <<>>)
          [] action.kind = "Backspace" ->
                IF lastLine # <<>>
                THEN [content EXCEPT ![n] = SubSeq(lastLine, 1, Len(lastLine) - 1)]
                ELSE IF n > 1 THEN SubSeq(content, 1, n - 1) ELSE content
          [] OTHER -> content

EditActions ==
    {[kind |-> "Insert", ch |-> "a"], [kind |-> "Enter", ch |-> ""],
     [kind |-> "Backspace", ch |-> ""], [kind |-> "Move", ch |-> ""]}

\* ------------------------------------------------------- markdown::parse
RECURSIVE ParseLines(_, _)
\* Consecutive non-blank lines form one paragraph item; blank lines end it.
ParseLines(lines, para) ==
    IF lines = <<>> THEN (IF para = <<>> THEN <<>> ELSE <<para>>)
    ELSE IF Trim(Head(lines)) = <<>>
         THEN (IF para = <<>> THEN <<>> ELSE <<para>>) \o ParseLines(Tail(lines), <<>>)
         ELSE ParseLines(Tail(lines), Append(para, Head(lines)))

MarkdownParse(text) == ParseLines(Split(text, NL), <<>>)

\* ------------------------------------------------ iced_aw Date and Time
\* date_picker::Date: three public integer fields, no validity check.
Date(y, m, d) == [year |-> y, month |-> m, day |-> d]

\* time_picker::Time: the Hm and Hms variants, each with a Period.
\* An Hm value has no second; the field is kept 0 and never read for it.
TimeHms(h, m, s, p) == [kind |-> "Hms", hour |-> h, minute |-> m, second |-> s, period |-> p]

TimeHm(h, m, p) == [kind |-> "Hm", hour |-> h, minute |-> m, second |-> 0, period |-> p]

\* One token of Time's rendered string: a zero-padded number, the ':'
\* separator or a period suffix.
Num(n) == [c |-> "num", n |-> n]

Colon == [c |-> ":", n |-> 0]

Suffix(str) == [c |-> str, n |-> 0]

\* Display for Period
PeriodToString(period) ==
    CASE period = "H24" -> <<>>
      [] period = "Am" -> <<Suffix(" AM")>>
      [] period = "Pm" -> <<Suffix(" PM")>>

\* Display for Time (post.time.to_string())
TimeToString(time) ==
    IF time.kind = "Hms"
    THEN <<Num(time.hour), Colon, Num(time.minute), Colon, Num(time.second)>>
             \o PeriodToString(time.period)
    ELSE <<Num(time.hour), Colon, Num(time.minute)>> \o PeriodToString(time.period)

\* str::parse::<u32>().unwrap_or_default(): the number when the piece is
\* exactly one number token, 0 otherwise.
ParseOrDefault(piece) ==
    IF Len(piece) = 1 /\ piece[1].c = "num" THEN piece[1].n ELSE 0

\* time_str.next().unwrap_or("0").to_string().parse().unwrap_or_default()
NextComponent(pieces, i) ==
    IF i <= Len(pieces) THEN ParseOrDefault(pieces[i]) ELSE ParseOrDefault(<<Num(0)>>)

IsLeap(y) == (y % 4 = 0 /\ y % 100 # 0) \/ y % 400 = 0

DaysInMonth(y, m) ==
    IF m = 2 THEN (IF IsLeap(y) THEN 29 ELSE 28)
    ELSE IF m \in {4, 6, 9, 11} THEN 30 ELSE 31

\* Utc.with_ymd_and_hms(...): a single instant exactly when the calendar
\* date and the clock time are both valid.
ValidYmdHms(y, m, d, h, mi, s) ==
    /\ m \in 1..12
    /\ d >= 1 /\ d <= DaysInMonth(y, m)
    /\ h < 24 /\ mi < 60 /\ s < 60

Timestamp(y, m, d, h, mi, s) ==
    [year |-> y, month |-> m, day |-> d, hour |-> h, minute |-> mi, second |-> s]

\* ------------------------------------------------------ Post and BlogPost
\* impl Default for Post; `today` and `now` are what the clock returns.
PostDefault(today, now) ==
    [content |-> ContentDefault, parsed |-> <<>>, name |-> "", description |-> "",
     tags |-> <<>>, image_url |-> "", savepath |-> None, selected_tab |-> TabDefault,
     date |-> today, show_picker |-> FALSE, time |-> now,
     show_picker_time |-> FALSE, image |-> None]

BlogPost(title, body, image_url, summary, timestamp, tags) ==
    [title |-> title, body |-> body, image_url |-> image_url, summary |-> summary,
     timestamp |-> timestamp, tags |-> tags]

\* Variant of the load conversion with the minute and second arguments of
\* Time::Hms exchanged.
PostFromBlogPostSwapped(bp) ==
    [content |-> ContentWithText(bp.body), parsed |-> <<>>, name |-> bp.title,
     description |-> bp.summary, tags |-> Join(bp.tags, ","),
     image_url |-> bp.image_url, savepath |-> None, selected_tab |-> TabDefault,
     date |-> Date(bp.timestamp.year, bp.timestamp.month, bp.timestamp.day),
     show_picker |-> FALSE,
     time |-> TimeHms(bp.timestamp.hour, bp.timestamp.second, bp.timestamp.minute, "H24"),
     show_picker_time |-> FALSE, image |-> None]

\* impl From<BlogPost> for Post (the load conversion)
PostFromBlogPost(bp) ==
    [content |-> ContentWithText(bp.body), parsed |-> <<>>, name |-> bp.title,
     description |-> bp.summary, tags |-> Join(bp.tags, ","),
     image_url |-> bp.image_url, savepath |-> None, selected_tab |-> TabDefault,
     date |-> Date(bp.timestamp.year, bp.timestamp.month, bp.timestamp.day),
     show_picker |-> FALSE,
     time |-> TimeHms(bp.timestamp.hour, bp.timestamp.minute, bp.timestamp.second, "H24"),
     show_picker_time |-> FALSE, image |-> None]

\* Variant of the component parsing in which one unparseable component
\* discards the whole time (all three become 0).
TimeComponentsAllOrNothing(p) ==
    LET pieces == Split(TimeToString(p.time), Colon)
        good(i) == i > Len(pieces) \/ (Len(pieces[i]) = 1 /\ pieces[i][1].c = "num")
    IN  IF good(1) /\ good(2) /\ good(3)
        THEN <<NextComponent(pieces, 1), NextComponent(pieces, 2), NextComponent(pieces, 3)>>
        ELSE <<0, 0, 0>>

\* The three hour/minute/second arguments handed to with_ymd_and_hms.
TimeComponents(p) ==
    LET pieces == Split(TimeToString(p.time), Colon)
    IN  <<NextComponent(pieces, 1), NextComponent(pieces, 2), NextComponent(pieces, 3)>>

\* Variant of the tag splitting that drops the empty pieces.
TagsOfNonEmpty(p) ==
    LET pieces == Split(p.tags, ",")
        trimmed == [i \in 1..Len(pieces) |-> Trim(pieces[i])]
        NonEmpty(t) == t # <<>>
    IN  SelectSeq(trimmed, NonEmpty)

\* post.tags.split(",").map(|v| v.trim().to_string()).collect()
TagsOf(p) ==
    LET pieces == Split(p.tags, ",")
    IN  [i \in 1..Len(pieces) |-> Trim(pieces[i])]

\* Whether .unwrap() on the timestamp succeeds (otherwise the conversion panics).
TimestampOk(p) ==
    LET hms == TimeComponents(p)
    IN  ValidYmdHms(p.date.year, p.date.month, p.date.day, hms[1], hms[2], hms[3])

TimestampOf(p) ==
    LET hms == TimeComponents(p)
    IN  Timestamp(p.date.year, p.date.month, p.date.day, hms[1], hms[2], hms[3])

\* impl From<Post> for BlogPost (the save conversion, by value)
BlogPostFromPost(p) ==
    BlogPost(p.name, ContentText(p.content), p.image_url, p.description,
             TimestampOf(p), TagsOf(p))

\* impl From<&Post> for BlogPost (the save conversion used by save_to_file)
BlogPostFromRef(p) ==
    BlogPost(p.name, ContentText(p.content), p.image_url, p.description,
             TimestampOf(p), TagsOf(p))

\* ------------------------------------------------------------ file system
NoDoc == BlogPost("", <<>>, "", "", Timestamp(0, 0, 0, 0, 0, 0), <<>>)

\* A file is absent, empty (created, nothing written), partial (not a
\* complete JSON document) or holds the JSON of one BlogPost.
Absent == [kind |-> "absent", doc |-> NoDoc]

EmptyFile == [kind |-> "empty", doc |-> NoDoc]

PartialFile == [kind |-> "partial", doc |-> NoDoc]

\* serde_json::to_string(&BlogPost) written out in full
JsonFile(bp) == [kind |-> "json", doc |-> bp]

Doc1 ==
    BlogPost("Hello", <<"a", NL, NL, "a">>, "u", "s",
             Timestamp(2024, 2, 29, 23, 59, 58), << <<"x">>, <<"y">> >>)

Doc2 ==
    BlogPost("T", <<"a">>, "", "", Timestamp(2023, 1, 1, 0, 0, 0), << <<"x", ",", "y">> >>)

\* What the clock gives to Post::default (Date::today, Time::now_hms(true)).
Today == Date(2026, 11, 4)

Now == TimeHms(10, 30, 0, "H24")

\* ------------------------------------------------------------ collaborators
\* load_from_file: panics on a path that is not UTF-8 (println! of
\* to_str().unwrap()), gives the default Post when the file cannot be
\* opened, and otherwise parses the file, panicking when it is no BlogPost.
load_from_file(path, file, opened) ==
    IF PathToStr(path) = None THEN [panic |-> "path", state |-> PostDefault(Today, Now)]
    ELSE IF ~opened THEN [panic |-> "no", state |-> PostDefault(Today, Now)]
    ELSE IF file.kind = "json" THEN [panic |-> "no", state |-> PostFromBlogPost(file.doc)]
    ELSE [panic |-> "parse", state |-> PostDefault(Today, Now)]

\* save_to_file: File::create truncates the file; the conversion (which may
\* panic) and write_all come after it.  io is what the file system answers:
\* "create_err", "write_err" or "ok".
save_to_file(files, path, state, io) ==
    IF io = "create_err" THEN [panic |-> FALSE, files |-> files, io |-> "create_err"]
    ELSE IF ~TimestampOk(state)
         THEN [panic |-> TRUE, files |-> [files EXCEPT ![path] = EmptyFile], io |-> "panic_time"]
    ELSE IF io = "write_err"
         THEN [panic |-> FALSE, files |-> [files EXCEPT ![path] = PartialFile], io |-> "write_err"]
    ELSE [panic |-> FALSE, files |-> [files EXCEPT ![path] = JsonFile(BlogPostFromRef(state))],
          io |-> "written"]

IoOutcomes == {"create_err", "write_err", "ok"}

\* fetch_image results: Err, or Ok(handle)
FetchResults == {"Err", "img1", "img2"}

\* --------------------------------------------------------- message payloads
Titles == {"", "Hello"}

Summaries == {"", "s"}

Urls == {"", "u"}

TagStrings == {<<>>, <<"x">>, <<" ", "x", ",", "y">>}

Dates == {Date(2024, 2, 29), Date(2023, 2, 29)}

Times == {TimeHms(13, 5, 9, "H24"), TimeHms(1, 5, 9, "Pm"), TimeHm(13, 5, "H24")}

\* ------------------------------------------------------------ Post::update
\* Variant of update that leaves the preview as the match arm left it.
ReparseSkipped(p) == p

\* The statement after the match: self.parsed = markdown::parse(&self.content.text())
Reparse(p) == [p EXCEPT !.parsed = MarkdownParse(ContentText(p.content))]

NoDialog == "-"

NoArg == "-"

\* What `last` records of one event: the message, the path read or written,
\* what file I/O answered, what the file dialog returned (NoDialog when none
\* was shown, None when it was cancelled), the savepath the Post had when
\* the event arrived, the message's payload, and the picker flags and image
\* handle the Post had when the event arrived.
Event(ev, path, io, dialog) ==
    [ev |-> ev, path |-> path, io |-> io, dialog |-> dialog, had |-> post.savepath,
     arg |-> NoArg, ui |-> <<post.show_picker, post.show_picker_time, post.image>>]

\* The same record with the message's payload (or, for LoadFile, whether
\* File::open can open the chosen file).
EventWith(ev, path, io, dialog, arg) == [Event(ev, path, io, dialog) EXCEPT !.arg = arg]

Running == ~aborted /\ nev < MaxEvents

\* Variant of a Post-only transition that also writes the document to its
\* associated path (an autosave).
PureAutosave(p, ev, arg) ==
    /\ Running
    /\ post' = Reparse(p)
    /\ last' = EventWith(ev, None, "-", NoDialog, arg)
    /\ nev' = nev + 1
    /\ fs' = IF p.savepath # None /\ TimestampOk(p)
             THEN [fs EXCEPT ![p.savepath] = JsonFile(BlogPostFromRef(p))]
             ELSE fs
    /\ UNCHANGED <<aborted, cv>>

\* A transition that touches only the Post.
Pure(p, ev, arg) ==
    /\ Running
    /\ post' = Reparse(p)
    /\ last' = EventWith(ev, None, "-", NoDialog, arg)
    /\ nev' = nev + 1
    /\ UNCHANGED <<fs, aborted, cv>>

LinkClicked == \E url \in Urls : Pure(post, "LinkClicked", url)

EditContent ==
    \E action \in EditActions :
        /\ action.kind \in {"Insert", "Enter"} => ContentSize(post.content) < MaxBody
        /\ Pure([post EXCEPT !.content = ContentPerform(post.content, action)], "EditContent",
             action)

\* Variant of TabSelected that also closes both pickers.
TabSelectedClosesPickers ==
    \E id \in TabIDs :
        Pure([post EXCEPT !.selected_tab = id, !.show_picker = FALSE,
                          !.show_picker_time = FALSE], "TabSelected", id)

TabSelected == \E id \in TabIDs : Pure([post EXCEPT !.selected_tab = id], "TabSelected", id)

EditTitle == \E title \in Titles : Pure([post EXCEPT !.name = title], "EditTitle", title)

\* Variant of EditSummary that stores the text in the title field.
EditSummaryWrongField ==
    \E summary \in Summaries : Pure([post EXCEPT !.name = summary], "EditSummary", summary)

EditSummary ==
    \E summary \in Summaries : Pure([post EXCEPT !.description = summary], "EditSummary", summary)

EditTags == \E tags \in TagStrings : Pure([post EXCEPT !.tags = tags], "EditTags", tags)

EditImageUrl == \E url \in Urls : Pure([post EXCEPT !.image_url = url], "EditImageUrl", url)

\* Variant of SubmitImageUrl that keeps the image shown when the fetch fails.
SubmitImageUrlKeepsOnError ==
    \E url \in Urls, image \in FetchResults :
        Pure([post EXCEPT !.image = IF image = "Err" THEN post.image ELSE image],
             "SubmitImageUrl", image)

SubmitImageUrl ==
    \E url \in Urls, image \in FetchResults :
        Pure([post EXCEPT !.image = IF image = "Err" THEN None ELSE image], "SubmitImageUrl",
             image)

ChooseDate == Pure([post EXCEPT !.show_picker = TRUE], "ChooseDate", NoArg)

SubmitDate ==
    \E date \in Dates :
        Pure([post EXCEPT !.date = date, !.show_picker = FALSE], "SubmitDate", date)

CancelDate == Pure([post EXCEPT !.show_picker = FALSE], "CancelDate", NoArg)

\* Variant of ChooseTime that raises the date picker's flag.
ChooseTimeWrongFlag == Pure([post EXCEPT !.show_picker = TRUE], "ChooseTime", NoArg)

ChooseTime == Pure([post EXCEPT !.show_picker_time = TRUE], "ChooseTime", NoArg)

SubmitTime ==
    \E time \in Times :
        Pure([post EXCEPT !.time = time, !.show_picker_time = FALSE], "SubmitTime", time)

CancelTime == Pure([post EXCEPT !.show_picker_time = FALSE], "CancelTime", NoArg)

\* Whether File::open(path) gives Ok or Err.
OpenOutcome(opened) == IF opened THEN "can_open" ELSE "cannot_open"

\* Variant of the replacement state that carries the image handle over the
\* load, as it carries the tab.
NewStateKeepsImage(loaded, path) ==
    [loaded EXCEPT !.savepath = path, !.selected_tab = post.selected_tab,
                   !.image = post.image]

\* new_state after `new_state.savepath = path; new_state.selected_tab = ...`
NewState(loaded, path) ==
    [loaded EXCEPT !.savepath = path, !.selected_tab = post.selected_tab]

\* The body of `if path.is_some() { ... }` in the LoadFile arm.
LoadChosen(path) ==
    \E opened \in BOOLEAN :
        /\ fs[path].kind = "absent" => ~opened
        /\ LET r == load_from_file(path, fs[path], opened)
           IN  IF r.panic # "no"
               THEN /\ aborted' = TRUE
                    /\ post' = post
                    /\ last' = EventWith("LoadFile", path, "panic_" \o r.panic, path,
                                         OpenOutcome(opened))
               ELSE /\ UNCHANGED aborted
                    /\ post' = Reparse(NewState(r.state, path))
                    /\ last' = EventWith("LoadFile", path,
                                         IF opened THEN "loaded" ELSE "open_err",
                                         path, OpenOutcome(opened))

\* Variant of LoadFile that starts a new default document when the dialog
\* is cancelled.
LoadFileCancelResets ==
    /\ Running
    /\ nev' = nev + 1
    /\ UNCHANGED <<fs, cv>>
    /\ \E path \in Paths \cup {None} :
        IF path = None
        THEN /\ post' = Reparse(PostDefault(Today, Now))
             /\ last' = Event("LoadFile", None, "cancel", None)
             /\ UNCHANGED aborted
        ELSE LoadChosen(path)

\* Message::LoadFile
LoadFile ==
    /\ Running
    /\ nev' = nev + 1
    /\ UNCHANGED <<fs, cv>>
    /\ \E path \in Paths \cup {None} :
        IF path = None
        THEN /\ post' = Reparse(post)
             /\ last' = Event("LoadFile", None, "cancel", None)
             /\ UNCHANGED aborted
        ELSE LoadChosen(path)

\* The tail shared by SaveFile and SaveToFile once self.savepath is settled:
\* if self.savepath.is_some() { save_to_file(...) }
SaveTail(p, ev, dialog) ==
    IF p.savepath = None
    THEN /\ post' = Reparse(p)
         /\ last' = Event(ev, None, "cancel", dialog)
         /\ UNCHANGED <<fs, aborted>>
    ELSE \E io \in IoOutcomes :
         LET r == save_to_file(fs, p.savepath, p, io)
         IN  /\ fs' = r.files
             /\ aborted' = r.panic
             /\ post' = IF r.panic THEN p ELSE Reparse(p)
             /\ last' = Event(ev, p.savepath, r.io, dialog)

\* Variant of SaveFile that falls back to a default location when the
\* dialog is cancelled.
SaveFileDefaultPath ==
    /\ Running
    /\ nev' = nev + 1
    /\ UNCHANGED cv
    /\ IF post.savepath = None
       THEN \E path \in SavePaths \cup {None} :
                SaveTail([post EXCEPT !.savepath = IF path # None THEN path ELSE "p2"],
                         "SaveFile", path)
       ELSE SaveTail(post, "SaveFile", NoDialog)

\* Variant of SaveFile that shows the dialog whether or not a path is
\* associated.
SaveFileAlwaysAsks ==
    /\ Running
    /\ nev' = nev + 1
    /\ UNCHANGED cv
    /\ \E path \in SavePaths \cup {None} :
            SaveTail(IF path # None THEN [post EXCEPT !.savepath = path] ELSE post,
                     "SaveFile", path)

\* Message::SaveFile
SaveFile ==
    /\ Running
    /\ nev' = nev + 1
    /\ UNCHANGED cv
    /\ IF post.savepath = None
       THEN \E path \in SavePaths \cup {None} :
                SaveTail(IF path # None THEN [post EXCEPT !.savepath = path] ELSE post,
                         "SaveFile", path)
       ELSE SaveTail(post, "SaveFile", NoDialog)

\* Message::SaveToFile
SaveToFile ==
    /\ Running
    /\ nev' = nev + 1
    /\ UNCHANGED cv
    /\ \E path \in SavePaths \cup {None} :
            SaveTail([post EXCEPT !.savepath = path], "SaveToFile", path)

Idle == [stage |-> "idle"]

Init ==
    /\ post = PostDefault(Today, Now)
    /\ fs = [path \in Paths |->
                CASE path = "p1" -> JsonFile(Doc1)
                  [] path = "p2" -> Absent
                  [] path = "p3" -> PartialFile
                  [] path = "pRaw" -> JsonFile(Doc2)]
    /\ aborted = FALSE
    /\ last = [ev |-> "start", path |-> None, io |-> "-", dialog |-> NoDialog, had |-> None,
               arg |-> NoArg, ui |-> <<FALSE, FALSE, None>>]
    /\ nev = 0
    /\ cv = Idle

Next ==
    \/ LinkClicked
    \/ EditContent
    \/ TabSelected
    \/ EditTitle
    \/ EditSummary
    \/ EditTags
    \/ EditImageUrl
    \/ SubmitImageUrl
    \/ ChooseDate
    \/ SubmitDate
    \/ CancelDate
    \/ ChooseTime
    \/ SubmitTime
    \/ CancelTime
    \/ LoadFile
    \/ SaveFile
    \/ SaveToFile

Spec == Init /\ [][Next]_vars

\* ------------------------------------------------ the conversions alone
\* ConvSpec applies the two conversions to values drawn from bounded sets:
\* a BlogPost is loaded and saved again, a Post is saved and loaded again.
MaxTags == 2

Texts(alphabet, n) == UNION {[1..k -> alphabet] : k \in 0..n}

Bodies == Texts({"a", NL}, MaxBody)

TagLists ==
    {<<>>, << <<"x">> >>, << <<"x">>, <<"y">> >>, << <<"x", ",", "y">> >>,
     << <<" ", "x">> >>, << <<>> >>, << <<"x">>, <<"x">> >>}

Timestamps == {Timestamp(2024, 2, 29, 23, 59, 58), Timestamp(2023, 1, 1, 0, 0, 0)}

PersistedPosts ==
    {BlogPost(title, body, "u", "s", ts, tags) :
        title \in Titles, body \in Bodies, ts \in Timestamps, tags \in TagLists}

AllTimes == Times \cup {Now, TimeHm(1, 5, "Am"), TimeHms(12, 0, 0, "Am")}

EditorStates ==
    {[PostDefault(date, time) EXCEPT !.content = ContentWithText(body), !.tags = tags,
                                     !.name = "Hello", !.image_url = "u",
                                     !.description = "s", !.selected_tab = "Meta"] :
        date \in Dates \cup {Today}, time \in AllTimes, body \in Bodies,
        tags \in Texts({"x", ",", " "}, MaxTags)}

InitConv ==
    /\ post = PostDefault(Today, Now)
    /\ fs = [path \in Paths |-> Absent]
    /\ aborted = FALSE
    /\ last = [ev |-> "start", path |-> None, io |-> "-", dialog |-> NoDialog, had |-> None,
               arg |-> NoArg, ui |-> <<FALSE, FALSE, None>>]
    /\ nev = 0
    /\ \/ \E bp \in PersistedPosts : cv = [stage |-> "bp", src |-> bp, cur |-> bp]
       \/ \E x \in EditorStates : cv = [stage |-> "post", src |-> x, cur |-> x]

\* Apply the load conversion to the BlogPost at hand.
ConvLoad ==
    /\ cv.stage \in {"bp", "post_saved"}
    /\ cv' = [cv EXCEPT !.stage = cv.stage \o "_loaded", !.cur = PostFromBlogPost(cv.cur)]
    /\ UNCHANGED <<post, fs, aborted, last, nev>>

\* Apply the save conversion to the Post at hand; it panics on a date and
\* time that form no timestamp.
ConvSave ==
    /\ cv.stage \in {"post", "bp_loaded"}
    /\ cv' = IF TimestampOk(cv.cur)
             THEN [cv EXCEPT !.stage = cv.stage \o "_saved", !.cur = BlogPostFromPost(cv.cur)]
             ELSE [cv EXCEPT !.stage = "panic"]
    /\ UNCHANGED <<post, fs, aborted, last, nev>>

NextConv ==
    \/ ConvLoad
    \/ ConvSave

ConvSpec == InitConv /\ [][NextConv]_vars

\* ================================================================== claims
SaveEvents == {"SaveFile", "SaveToFile"}

\* C1: after any sequence of events the preview `parsed` is the parse of the
\* current body text, also right after a LoadFile replaced the whole state
\* and after events that do not touch the body.
C1_PreviewIsParseOfBody ==
    post.parsed = MarkdownParse(ContentText(post.content))

\* A file with two paragraphs has just been loaded and its preview shows them.
C1_Witness ==
    /\ last.ev = "LoadFile" /\ last.io = "loaded"
    /\ Len(post.parsed) = 2
    /\ ~aborted

\* What C2 requires of the BlogPost: tags non-empty, trimmed and pairwise
\* different; no control character in the body.
C2_Precondition(bp) ==
    /\ \A i \in 1..Len(bp.tags) : bp.tags[i] # <<>> /\ Trim(bp.tags[i]) = bp.tags[i]
    /\ \A i, j \in 1..Len(bp.tags) : bp.tags[i] = bp.tags[j] => i = j
    /\ \A i \in 1..Len(bp.body) : bp.body[i] # NL

\* C2: for a BlogPost p with non-empty, trimmed, non-duplicate tags and no
\* control characters, the save conversion of the load conversion of p is p.
C2_SaveOfLoadIsIdentity ==
    /\ cv.stage = "bp_loaded" /\ C2_Precondition(cv.src) => TimestampOk(cv.cur)
    /\ cv.stage = "bp_loaded_saved" /\ C2_Precondition(cv.src) => cv.cur = cv.src

\* C3: SaveToFile with a cancelled dialog leaves every field of the state,
\* the associated save path included, as it was, and writes nothing.
C3_SaveToFileCancelKeepsState ==
    [][last'.ev = "SaveToFile" /\ last'.dialog = None => post' = post /\ fs' = fs]_vars

\* C4: when SaveFile or SaveToFile has a path but the write to it fails, the
\* state is unchanged; in particular the save path is what it was before.
C4_FailedWriteKeepsState ==
    [][last'.ev \in SaveEvents /\ last'.io \in {"create_err", "write_err"}
          => post' = post /\ post'.savepath = post.savepath]_vars

\* C5: with no save path associated, SaveFile with a cancelled dialog leaves
\* savepath None, writes nothing and changes no other field.
C5_SaveFileCancelFromNoPath ==
    [][last'.ev = "SaveFile" /\ post.savepath = None /\ last'.dialog = None
          => post'.savepath = None /\ fs' = fs /\ post' = post /\ ~aborted']_vars

\* The scenario of C5: a title and a body were typed, then SaveFile was
\* cancelled.
C5_Witness ==
    /\ last.ev = "SaveFile" /\ last.dialog = None /\ last.io = "cancel" /\ last.had = None
    /\ post.name = "Hello" /\ ContentText(post.content) = <<"a", NL>>
    /\ post.savepath = None

\* The fields C6 lists, for comparison with the load conversion.
C6_Fields(p) ==
    <<p.name, ContentText(p.content), p.image_url, p.description, p.tags, p.date, p.time>>

\* C6: LoadFile on a valid file chosen at path P, from any prior state, gives
\* savepath = Some(P), the tab that was active before, and the title, body,
\* image_url, summary, tags string, date and time of the load conversion of
\* the file's BlogPost.
C6_LoadValidFile ==
    [][/\ last'.ev = "LoadFile" /\ last'.path # None
       /\ fs[last'.path].kind = "json" /\ last'.io # "open_err"
          => /\ post'.savepath = last'.path
             /\ post'.selected_tab = post.selected_tab
             /\ C6_Fields(post') = C6_Fields(PostFromBlogPost(fs[last'.path].doc))
             /\ post'.image = None /\ ~post'.show_picker /\ ~post'.show_picker_time]_vars

\* C7: after SaveFile or SaveToFile the target file holds the complete
\* serialized save conversion of the current state or is as it was before.
C7_SaveAllOrNothing ==
    [][last'.ev \in SaveEvents /\ last'.path # None
          => \/ fs'[last'.path] = fs[last'.path]
             \/ /\ TimestampOk(post')
                /\ fs'[last'.path] = JsonFile(BlogPostFromRef(post'))]_vars

\* C8: the process aborts only in LoadFile on a chosen file whose content is
\* malformed, and in a save whose stored date and time form no timestamp.
C8_OnlyTwoAborts ==
    aborted =>
        \/ /\ last.ev = "LoadFile" /\ last.path # None
           /\ fs[last.path].kind \in {"empty", "partial"}
        \/ /\ last.ev \in SaveEvents /\ last.path # None
           /\ ~TimestampOk(post)

\* C9: a file changes only while SaveFile or SaveToFile is processed, only
\* the file at the document's save path, and a completed write leaves there
\* the save conversion of the state the event found.
C9_WritesOnlyOnSave ==
    [][fs' # fs =>
          /\ last'.ev \in SaveEvents
          /\ \A path \in Paths : fs'[path] # fs[path] =>
                /\ path = post'.savepath
                /\ IF last'.io = "written"
                   THEN fs'[path] = JsonFile(BlogPostFromRef(post))
                   ELSE fs'[path].kind \in {"empty", "partial"}]_vars

\* An edited document has just been written in full.
C9_Witness ==
    /\ last.ev \in SaveEvents /\ last.io = "written"
    /\ post.name = "Hello"
    /\ fs[last.path] = JsonFile(BlogPostFromRef(post))
    /\ fs[last.path].doc.title = "Hello"

\* The 24-hour clock reading of a Time (an Hm value reads as second 0).
ClockOf(time) ==
    <<CASE time.period = "H24" -> time.hour
        [] time.period = "Am" -> time.hour % 12
        [] time.period = "Pm" -> (time.hour % 12) + 12,
      time.minute,
      IF time.kind = "Hms" THEN time.second ELSE 0>>

C10_TextAndDateKept ==
    /\ cv.cur.name = cv.src.name
    /\ ContentText(cv.cur.content) = ContentText(cv.src.content)
    /\ cv.cur.image_url = cv.src.image_url
    /\ cv.cur.description = cv.src.description
    /\ cv.cur.date = cv.src.date

\* C10 as stated: for any editor state whose save conversion succeeds, the
\* load conversion of the saved BlogPost has the same title, body, image_url,
\* summary, date and clock time, for every Time value.
C10_LoadOfSaveKeepsAll ==
    cv.stage = "post_saved_loaded"
        => C10_TextAndDateKept /\ ClockOf(cv.cur.time) = ClockOf(cv.src.time)

\* C10 amended: the same, for every Time value in 24-hour form (Period::H24).
C10_LoadOfSaveKeeps24h ==
    cv.stage = "post_saved_loaded" /\ cv.src.time.period = "H24"
        => C10_TextAndDateKept /\ ClockOf(cv.cur.time) = ClockOf(cv.src.time)

\* A state with a body and a 24-hour time with non-zero seconds went through
\* save and load.
C10_Witness ==
    /\ cv.stage = "post_saved_loaded"
    /\ cv.src.time = TimeHms(13, 5, 9, "H24")
    /\ cv.cur.time = TimeHms(13, 5, 9, "H24")
    /\ ContentSize(cv.src.content) > 0

\* C11: SaveFile on a state with save path P shows no dialog, writes the save
\* conversion of the current state to P and leaves savepath = Some(P); with
\* no path the dialog is shown, and a chosen path becomes the save path the
\* write goes to.
C11_SaveFileUsesKnownPath ==
    [][last'.ev = "SaveFile" =>
          IF post.savepath # None
          THEN /\ last'.dialog = NoDialog
               /\ last'.path = post.savepath
               /\ post'.savepath = post.savepath
               /\ last'.io = "written" => fs'[post.savepath] = JsonFile(BlogPostFromRef(post))
               /\ \A path \in Paths \ {post.savepath} : fs'[path] = fs[path]
          ELSE /\ last'.dialog # NoDialog
               /\ last'.dialog # None =>
                     /\ post'.savepath = last'.dialog
                     /\ last'.path = last'.dialog
                     /\ last'.io = "written" =>
                            fs'[last'.dialog] = JsonFile(BlogPostFromRef(post))
                     /\ \A path \in Paths \ {last'.dialog} : fs'[path] = fs[path]]_vars

\* A document loaded from p1 and edited was saved back to p1 with no dialog.
C11_Witness ==
    /\ last.ev = "SaveFile" /\ last.had = "p1" /\ last.dialog = NoDialog
    /\ last.io = "written" /\ post.savepath = "p1"
    /\ post.name = "" /\ fs["p1"].doc.title = ""

RECURSIVE C12_Count(_, _)
C12_Count(s, c) ==
    IF s = <<>> THEN 0 ELSE (IF Head(s) = c THEN 1 ELSE 0) + C12_Count(Tail(s), c)

RECURSIVE C12_Without(_, _)
C12_Without(s, c) ==
    IF s = <<>> THEN <<>>
    ELSE (IF Head(s) = c THEN <<>> ELSE <<Head(s)>>) \o C12_Without(Tail(s), c)

\* C12: the save conversion's tag sequence is the tags string split on ","
\* with each piece trimmed: it has (number of commas + 1) elements, is never
\* empty, and for the empty tags string it is the one-element sequence [""].
C12_TagsSplitAndTrimmed ==
    cv.stage = "post_saved" =>
        LET src == cv.src.tags
            t == cv.cur.tags
        IN  /\ Len(t) = C12_Count(src, ",") + 1
            /\ t # <<>>
            /\ src = <<>> => t = << <<>> >>
            /\ \A i \in 1..Len(t) :
                  /\ C12_Count(t[i], ",") = 0
                  /\ t[i] # <<>> => t[i][1] # " " /\ t[i][Len(t[i])] # " "
            /\ C12_Without(Join(t, ","), " ") = C12_Without(src, " ")

\* The empty tags string went through the save conversion.
C12_Witness ==
    /\ cv.stage = "post_saved"
    /\ cv.src.tags = <<>>
    /\ cv.cur.tags = << <<>> >>

\* The hour, minute and second C13 expects for a Time: the values of the
\* components that render as plain numbers, 0 for a component that is
\* missing or carries the period suffix.
C13_Expected(time) ==
    IF time.period = "H24"
    THEN <<time.hour, time.minute, IF time.kind = "Hms" THEN time.second ELSE 0>>
    ELSE IF time.kind = "Hms" THEN <<time.hour, time.minute, 0>>
    ELSE <<time.hour, 0, 0>>

\* C13: in the save conversion each of hour, minute, second that is missing
\* from the rendered time or does not parse is 0, the ones that parse keep
\* their values, and the timestamp is built from exactly these and the date.
C13_TimeComponentsDefaultToZero ==
    cv.stage = "post_saved" =>
        LET ts == cv.cur.timestamp
        IN  /\ <<ts.hour, ts.minute, ts.second>> = C13_Expected(cv.src.time)
            /\ <<ts.year, ts.month, ts.day>>
                  = <<cv.src.date.year, cv.src.date.month, cv.src.date.day>>

\* A time of which only the hour parses was saved with minute 0, second 0.
C13_Witness ==
    /\ cv.stage = "post_saved"
    /\ cv.src.time = TimeHm(1, 5, "Am")
    /\ cv.cur.timestamp.hour = 1
    /\ cv.cur.timestamp.minute = 0 /\ cv.cur.timestamp.second = 0

\* C14: TabSelected(tab) sets the active tab to tab and changes no other
\* field; applied again with the same tab it leaves the state as it is.
C14_TabSelectedOnlyTab ==
    [][last'.ev = "TabSelected" =>
          /\ post' = [post EXCEPT !.selected_tab = last'.arg]
          /\ fs' = fs /\ ~aborted'
          /\ last.ev = "TabSelected" /\ last.arg = last'.arg => post' = post]_vars

\* The Meta tab was selected on an edited document.
C14_Witness ==
    /\ last.ev = "TabSelected" /\ last.arg = "Meta"
    /\ post.selected_tab = "Meta"
    /\ post.name = "Hello" /\ post.show_picker

\* C15: LoadFile whose dialog returns no selection leaves the whole state
\* unchanged.
C15_LoadCancelKeepsState ==
    [][last'.ev = "LoadFile" /\ last'.dialog = None
          => post' = post /\ fs' = fs /\ ~aborted']_vars

\* The dialog was cancelled on a state with an image and an open picker.
C15_Witness ==
    /\ last.ev = "LoadFile" /\ last.dialog = None
    /\ post.image # None /\ post.show_picker_time

\* C16: after a successful LoadFile both picker flags are false and no image
\* is loaded, whatever the state before.
C16_LoadResetsTransient ==
    last.ev = "LoadFile" /\ last.io = "loaded"
        => ~post.show_picker /\ ~post.show_picker_time /\ post.image = None

\* A file was loaded over a state with the date picker open and an image.
C16_Witness ==
    /\ last.ev = "LoadFile" /\ last.io = "loaded"
    /\ last.ui[1] /\ last.ui[3] # None
    /\ ~post.show_picker /\ post.image = None

\* C17: ChooseDate (ChooseTime) only raises its picker flag; SubmitDate(d)
\* (SubmitTime(t)) stores d (t) and clears the flag; CancelDate (CancelTime)
\* clears the flag and keeps the stored value, which cannot change while the
\* picker stays open; date events leave the time side alone and vice versa.
C17_PickerProtocol ==
    [][/\ last'.ev = "ChooseDate" => post' = [post EXCEPT !.show_picker = TRUE]
       /\ last'.ev = "SubmitDate" =>
             post' = [post EXCEPT !.date = last'.arg, !.show_picker = FALSE]
       /\ last'.ev = "CancelDate" => post' = [post EXCEPT !.show_picker = FALSE]
       /\ last'.ev = "ChooseTime" => post' = [post EXCEPT !.show_picker_time = TRUE]
       /\ last'.ev = "SubmitTime" =>
             post' = [post EXCEPT !.time = last'.arg, !.show_picker_time = FALSE]
       /\ last'.ev = "CancelTime" => post' = [post EXCEPT !.show_picker_time = FALSE]
       /\ post.show_picker /\ post'.show_picker => post'.date = post.date
       /\ post.show_picker_time /\ post'.show_picker_time => post'.time = post.time]_vars

\* A date was submitted, the picker opened again and then cancelled.
C17_Witness ==
    /\ last.ev = "CancelDate" /\ last.ui[1]
    /\ ~post.show_picker
    /\ post.date = Date(2024, 2, 29)

\* C18: SubmitImageUrl stores the fetched image on success and clears the
\* image handle on failure, also when an image was loaded; nothing else
\* changes.
C18_SubmitImageUrlOutcome ==
    [][last'.ev = "SubmitImageUrl" =>
          /\ post' = [post EXCEPT !.image = IF last'.arg = "Err" THEN None ELSE last'.arg]
          /\ post'.image_url = post.image_url
          /\ fs' = fs /\ ~aborted']_vars

\* A fetch failed while an image was shown, and the image is gone.
C18_Witness ==
    /\ last.ev = "SubmitImageUrl" /\ last.arg = "Err"
    /\ last.ui[3] # None
    /\ post.image = None /\ post.image_url = "u"

\* C19: LoadFile on a chosen path whose file cannot be opened replaces the
\* state by the default empty one, with the active tab kept and savepath set
\* to the chosen path; a SaveFile that follows writes the empty post to that
\* path without showing a dialog.
C19_UnopenableLoadsDefault ==
    [][/\ last'.ev = "LoadFile" /\ last'.dialog # None /\ last'.arg = "cannot_open" =>
          /\ ~aborted'
          /\ post'.savepath = last'.dialog
          /\ post'.selected_tab = post.selected_tab
          /\ post'.name = "" /\ post'.description = "" /\ post'.tags = <<>>
          /\ post'.image_url = "" /\ post'.content = ContentDefault
          /\ post'.image = None /\ ~post'.show_picker /\ ~post'.show_picker_time
       /\ last.ev = "LoadFile" /\ last.arg = "cannot_open" /\ last'.ev = "SaveFile" =>
          /\ last'.dialog = NoDialog
          /\ last'.path = last.dialog
          /\ last'.io = "written" =>
                /\ fs'[last.dialog].kind = "json"
                /\ fs'[last.dialog].doc.title = ""
                /\ fs'[last.dialog].doc.body = ContentText(ContentDefault)]_vars

C20_PathEvents == {"LoadFile", "SaveFile", "SaveToFile"}

\* C20: savepath changes only in LoadFile, SaveFile and SaveToFile, and each
\* of EditTitle, EditSummary, EditTags, EditImageUrl replaces only its own
\* field with the given text.
C20_SavepathAndEditFrames ==
    [][/\ post'.savepath # post.savepath => last'.ev \in C20_PathEvents
       /\ last'.ev = "EditTitle" => post' = [post EXCEPT !.name = last'.arg]
       /\ last'.ev = "EditSummary" => post' = [post EXCEPT !.description = last'.arg]
       /\ last'.ev = "EditTags" => post' = [post EXCEPT !.tags = last'.arg]
       /\ last'.ev = "EditImageUrl" => post' = [post EXCEPT !.image_url = last'.arg]]_vars

\* A summary was typed into a document that has a save path and a title.
C20_Witness ==
    /\ last.ev = "EditSummary" /\ last.arg = "s"
    /\ post.description = "s" /\ post.name = "Hello"
    /\ post.savepath = "p2"

====
